---- MODULE Spec2Model ----
(***************************************************************************)
(* BugFixer backend: the relational store (users, projects, project        *)
(* members, access requests, invitations, bugs) and the request handlers   *)
(* that read and write it.                                                 *)
(*                                                                         *)
(* Granularity.  The handlers are async functions; every `await` on the    *)
(* store is a point where another request can run.  The membership         *)
(* handlers (signup, addMember, requestAccess, approveAccessRequest,       *)
(* rejectAccessRequest, acceptInvitation) are modelled as one step for     *)
(* the reads and checks up to their first write, then one step for every   *)
(* write (followed by the reads that come after it).  A request between    *)
(* two steps is a record in `inflight`.  The other handlers make one       *)
(* write at most and are one step each.                                    *)
(*                                                                         *)
(* Ids.  A row's primary key is its index in the table's sequence; a row   *)
(* removed by a cascade leaves a tombstone (deleted = TRUE), so that ids   *)
(* are never reused (UUIDs).  project_members has no handler that keeps    *)
(* a row across a step, so it is a bag of rows.                            *)
(***************************************************************************)
EXTENDS Integers, Sequences, FiniteSets, Bags, TLC

\* ------------------------------------------------------------------ bounds
MaxUsers == 2
MaxProjects == 1
MaxRequests == 2
MaxInvitations == 1
MaxPending == 2
MaxTokens == 2
MaxBugs == 1
MaxTime == 1
MaxInFlight == 2
\* the registered users of the identity cache's specification
CachedUsers == 3
\* the keys the identity cache may be given in a run
MaxInserts == 5

\* ------------------------------------------------------- program constants
\* null / undefined (no user, no reviewer, no reporter); ids start at 1
NULL == 0
\* invitation lifetime: 7 days, the unit of the clock `now`
InvitationTTL == 1
\* USER_CACHE_TTL = 5 minutes, less than a tick of the clock: an entry is
\* stale (Date.now() - cachedAt > USER_CACHE_TTL) one tick after it was set
USER_CACHE_TTL == 0
\* setCachedUser: userCache.size > 500, scaled down
UserCacheLimit == 1
\* WIDGET_CACHE_TTL = 60_000 ms, one tick of the clock
WIDGET_CACHE_TTL == 1

\* e-mail addresses; "A@x" and "a@x" differ only in case
Emails == {"A@x", "a@x", "b@x"}
toLowerCase(e) == IF e = "A@x" THEN "a@x" ELSE e

MemberRole == {"VIEWER", "MEMBER", "ADMIN"}
RequestStatus == {"PENDING", "APPROVED", "REJECTED"}
BugStatus == {"TRIAGE", "IN_PROGRESS", "CODE_REVIEW", "QA_TESTING", "DEPLOYED"}
Titles == {"t1", "t2"}

VARIABLES
    users,           \* users table: sequence of e-mail addresses, id = index
    projects,        \* projects table: sequence of rows
    members,         \* project_members table: bag of rows
    accessRequests,  \* access_requests table: sequence of rows
    invitations,     \* invitations table: sequence of rows, token = index
    bugs,            \* bugs table: sequence of rows
    requestIndex,    \* which unique index access_requests carries
    now,             \* the clock
    inflight,        \* bag of requests between two awaits
    resp,            \* the last response sent
    approvals,       \* history: bag of the requests an approval answered 200 for
    held,            \* history: the (project, user, role) seen since an owner last acted
    widgetTokens,    \* table widget_tokens, by project (project_id is UNIQUE)
    tokensIssued,    \* the number of widget tokens generated so far
    integrations,    \* table github_integrations, by project (project_id is UNIQUE)
    mail,            \* the notification the last answer waited for, and its outcome
    initiated,       \* history: the (project, user) initiateOAuth gave a state to
    cachedWidgetOrigins,     \* app.ts: the origins of the enabled widgets, as last read
    widgetOriginsCacheTime,  \* app.ts: when they were read
    userCache,       \* the identity cache: its entries in the Map's order
    cacheInserts     \* history: the number of keys added to userCache so far

vars == <<users, projects, members, accessRequests, invitations, bugs,
          requestIndex, now, inflight, resp, approvals, held,
          widgetTokens, tokensIssued, integrations, mail, initiated,
          cachedWidgetOrigins, widgetOriginsCacheTime, userCache, cacheInserts>>
widgetVars == <<widgetTokens, tokensIssued>>
\* what lives in the server process, not in the store
caches == <<cachedWidgetOrigins, widgetOriginsCacheTime>>
identity == <<userCache, cacheInserts>>
noted == <<initiated, caches, identity>>
runtime == <<mail, noted>>
side == <<integrations, runtime>>

store == <<users, projects, members, accessRequests, invitations, bugs>>
aux == <<requestIndex, now, approvals>>

\* --------------------------------------------------------------- the store
UserIds == DOMAIN users
\* req.user?.id under optionalAuth: a user or undefined
Callers == UserIds \cup {NULL}

\* User.findOne({ where: { email } }): an exact, case-sensitive match
UserByEmail(email) == {u \in UserIds : users[u] = email}

Live(table) == {i \in DOMAIN table : ~table[i].deleted}

\* Project.findByPk
ProjectExists(p) == p \in Live(projects)

\* ProjectMember.findOne({ where: { projectId, userId } })
MemberRows(p, u) == {m \in BagToSet(members) : m.projectId = p /\ m.userId = u}
IsMember(p, u) == MemberRows(p, u) # {}
\* membership?.role
RoleOf(p, u) ==
    IF IsMember(p, u) THEN (CHOOSE m \in MemberRows(p, u) : TRUE).role ELSE "NONE"

MemberCount(p, u) ==
    LET rows == MemberRows(p, u)
        RECURSIVE Sum(_)
        Sum(S) == IF S = {} THEN 0
                  ELSE LET m == CHOOSE x \in S : TRUE
                       IN CopiesIn(m, members) + Sum(S \ {m})
    IN Sum(rows)

\* project_members: UNIQUE (project_id, user_id) and the foreign key to projects
MemberInsertOk(p, u) == ProjectExists(p) /\ ~IsMember(p, u)
\* ProjectMember.create
InsertMember(p, u, role) ==
    members (+) SetToBag({[projectId |-> p, userId |-> u, role |-> role]})

\* access_requests: the unique index, as DATABASE_PLAN.sql declares it
\* (project_id, user_id, status) or as the Sequelize model declares it
\* (project_id, user_id).  `self` is the row being written (NULL on insert).
RequestUniqueOk(self, p, u, status) ==
    \A i \in Live(accessRequests) \ {self} :
        (accessRequests[i].projectId = p /\ accessRequests[i].userId = u)
            => (requestIndex = "PLAN" /\ accessRequests[i].status # status)

\* AccessRequest.findOne({ where: { projectId, userId, status: 'PENDING' } })
PendingRequests(p, u) ==
    {i \in Live(accessRequests) :
        /\ accessRequests[i].projectId = p
        /\ accessRequests[i].userId = u
        /\ accessRequests[i].status = "PENDING"}

\* where: { status: 'PENDING', expiresAt: { [Op.gt]: new Date() } }
InvitationOpen(i) ==
    /\ i \in Live(invitations)
    /\ invitations[i].status = "PENDING"
    /\ invitations[i].expiresAt > now

\* ------------------------------------------------------ requests in flight
Cont0 ==
    [op |-> "", pc |-> "", userId |-> NULL, projectId |-> NULL, subject |-> NULL,
     role |-> "", email |-> "", row |-> NULL, left |-> {}, count |-> 0,
     notify |-> "", status |-> 0, found |-> {}]

\* number of requests in flight that satisfy the filter
RECURSIVE BagCount(_)
BagCount(S) ==
    IF S = {} THEN 0
    ELSE LET c == CHOOSE x \in S : TRUE
         IN CopiesIn(c, inflight) + BagCount(S \ {c})
InFlightAt(op, pc) == BagCount({c \in BagToSet(inflight) : c.op = op /\ c.pc = pc})

CanStart == BagCardinality(inflight) < MaxInFlight
Start(c) == inflight' = inflight (+) SetToBag({c})
Finish(c) == inflight' = inflight (-) SetToBag({c})
Continue(c, d) == inflight' = (inflight (-) SetToBag({c})) (+) SetToBag({d})

\* a response: the handler, the HTTP status, invitationsProcessed (signup), the
\* ids of the bugs in the body, userRole (getProjectBySlug)
Response(op, status, n, found, role) ==
    [op |-> op, status |-> status, n |-> n, bugs |-> found, role |-> role]
Respond(op, status, n) == resp' = Response(op, status, n, {}, "")

\* ----------------------------------------------------------- notifications
\* no notification awaited yet
NoMail == [kind |-> "", sent |-> "true"]

\* a variant of sendEmail that lets the transport's error out
sendEmail_throws(transportOk) == IF transportOk THEN "true" ELSE "throw"

\* sendEmail: transporter.sendMail in a try/catch; true when the mail went
\* out, false when the transport failed, and no error leaves it
sendEmail(transportOk) == IF transportOk THEN "true" ELSE "false"

\* the templates: return sendEmail({ to, ...template })
sendBugResolvedEmail(transportOk) == sendEmail(transportOk)
sendAccessRequestApprovedEmail(transportOk) == sendEmail(transportOk)
sendAccessRequestRejectedEmail(transportOk) == sendEmail(transportOk)
sendNewAccessRequestEmail(transportOk) == sendEmail(transportOk)
sendProjectInvitationEmail(transportOk) == sendEmail(transportOk)
sendRoleChangedEmail(transportOk) == sendEmail(transportOk)
sendMemberRemovedEmail(transportOk) == sendEmail(transportOk)

Sent(kind, transportOk) ==
    CASE kind = "bugResolved" -> sendBugResolvedEmail(transportOk)
      [] kind = "approved" -> sendAccessRequestApprovedEmail(transportOk)
      [] kind = "rejected" -> sendAccessRequestRejectedEmail(transportOk)
      [] kind = "newRequest" -> sendNewAccessRequestEmail(transportOk)
      [] kind = "invitation" -> sendProjectInvitationEmail(transportOk)
      [] kind = "roleChanged" -> sendRoleChangedEmail(transportOk)
      [] kind = "memberRemoved" -> sendMemberRemovedEmail(transportOk)

\* the handler awaits the send inside its own try/catch, addMember does not
Caught(kind) == kind # "invitation"

\* what the handler answers after `await send...`: an error that nothing
\* catches reaches next(error)
AfterSend(status, sent, caught) == IF sent = "throw" /\ ~caught THEN 500 ELSE status

\* the rest of a handler after its write.  Taken with the write (suspend
\* FALSE): the send is awaited and the answer goes out.  Taken up to the
\* await (suspend TRUE): the handler is suspended at `await send...` and has
\* not answered.
Rest(suspend, c, op, status, found, kind) ==
    IF suspend
    THEN /\ Continue(c, [c EXCEPT !.op = op, !.pc = "sendEmail", !.notify = kind,
                                  !.status = status, !.found = found])
         /\ BagCardinality(inflight') <= MaxInFlight
         /\ UNCHANGED resp
    ELSE /\ \E transportOk \in BOOLEAN :
               LET st == AfterSend(status, Sent(kind, transportOk), Caught(kind)) IN
               resp' = Response(op, st, 0, IF st = status THEN found ELSE {}, "")
         /\ Finish(c)

\* the await returns: the handler answers
awaitSendEmail(c, transportOk) ==
    /\ c.pc = "sendEmail"
    /\ LET sent == Sent(c.notify, transportOk)
           st == AfterSend(c.status, sent, Caught(c.notify))
       IN /\ resp' = Response(c.op, st, 0, IF st = c.status THEN c.found ELSE {}, "")
          /\ mail' = [kind |-> c.notify, sent |-> sent]
    /\ Finish(c)
    /\ UNCHANGED <<store, aux, held, widgetVars, integrations, noted>>

\* ------------------------------------------------------------ integrations
\* no github_integrations row for the project
NoIntegration == [connectedBy |-> NULL, githubUsername |-> ""]

\* the GitHub accounts a code can be exchanged for
GitHubUsers == {"gh1", "gh2"}

\* ----------------------------------------------------------------- widgets
\* no widget_tokens row for the project
NoWidget == [token |-> 0, allowedOrigins |-> {}, enabled |-> FALSE]

\* the entries an allowlist is made of
OriginStrings == {"https://a", "*"}

\* the values of the Origin (or else Referer) header; "" is no header at all
Headers == {"", "https://a/page", "https://b", "not a url"}

\* new URL(origin).origin: scheme and host; "throws" when the parse fails
URLOrigin(h) ==
    CASE h = "https://a/page" -> "https://a"
      [] h = "https://b"      -> "https://b"
      [] OTHER                -> "throws"

\* a variant of WidgetByToken in which every token issued before the current
\* one still resolves
WidgetByToken_grace(token) ==
    {p \in DOMAIN widgetTokens : token > 0 /\ widgetTokens[p].token >= token}

\* WidgetToken.findOne({ where: { token } }): the projects holding the token
WidgetByToken(token) == {p \in DOMAIN widgetTokens : widgetTokens[p].token = token}

\* -------------------------------------------------------------------- Init
Init ==
    /\ users = <<>>
    /\ projects = <<>>
    /\ members = EmptyBag
    /\ accessRequests = <<>>
    /\ invitations = <<>>
    /\ bugs = <<>>
    /\ requestIndex \in {"PLAN", "MODEL"}
    /\ now = 0
    /\ inflight = EmptyBag
    /\ resp = Response("none", 0, 0, {}, "")
    /\ approvals = EmptyBag
    /\ held = {}
    /\ widgetTokens = [p \in 1..MaxProjects |-> NoWidget]
    /\ tokensIssued = 0
    /\ integrations = [p \in 1..MaxProjects |-> NoIntegration]
    /\ mail = NoMail
    /\ initiated = {}
    /\ cachedWidgetOrigins = {}
    /\ widgetOriginsCacheTime = 0 - WIDGET_CACHE_TTL
    /\ userCache = <<>>
    /\ cacheInserts = 0

\* ---------------------------------------------------------------- projects
\* createProject: the caller becomes the owner
createProject(u, isPublic) ==
    /\ u \in UserIds
    /\ Len(projects) < MaxProjects
    /\ projects' = Append(projects, [ownerId |-> u, isPublic |-> isPublic, deleted |-> FALSE])
    /\ Respond("createProject", 201, 0)
    /\ UNCHANGED <<users, members, accessRequests, invitations, bugs, aux, inflight>>

\* a variant of SavedProject that writes ownerId as well
SavedProject_ownerless(p, isPublic) ==
    [projects EXCEPT ![p].isPublic = isPublic, ![p].ownerId = NULL]

\* updateProject, the assignments and project.save(): isPublic stands for
\* name, description and isPublic
SavedProject(p, isPublic) == [projects EXCEPT ![p].isPublic = isPublic]

\* a variant of updateProject that lets an ADMIN member in as well
updateProject_admin(u, p, isPublic) ==
    /\ u \in UserIds
    /\ p \in DOMAIN projects
    /\ IF ~ProjectExists(p)
         THEN Respond("updateProject", 404, 0) /\ UNCHANGED projects
         ELSE IF projects[p].ownerId # u /\ RoleOf(p, u) # "ADMIN"
         THEN Respond("updateProject", 403, 0) /\ UNCHANGED projects
         ELSE /\ projects' = SavedProject(p, isPublic)
              /\ Respond("updateProject", 200, 0)
    /\ UNCHANGED <<users, members, accessRequests, invitations, bugs, aux, inflight>>

\* updateProject: only the owner
updateProject(u, p, isPublic) ==
    /\ u \in UserIds
    /\ p \in DOMAIN projects
    /\ IF ~ProjectExists(p)
         THEN Respond("updateProject", 404, 0) /\ UNCHANGED projects
         ELSE IF projects[p].ownerId # u
         THEN Respond("updateProject", 403, 0) /\ UNCHANGED projects
         ELSE /\ projects' = SavedProject(p, isPublic)
              /\ Respond("updateProject", 200, 0)
    /\ UNCHANGED <<users, members, accessRequests, invitations, bugs, aux, inflight>>

DeletedProject == [ownerId |-> NULL, isPublic |-> FALSE, deleted |-> TRUE]
DeletedRequest ==
    [projectId |-> NULL, userId |-> NULL, status |-> "PENDING", reviewedBy |-> NULL,
     deleted |-> TRUE]
DeletedInvitation ==
    [email |-> "", projectId |-> NULL, role |-> "", status |-> "PENDING",
     expiresAt |-> 0, deleted |-> TRUE]
DeletedBug ==
    [projectId |-> NULL, reporterId |-> NULL, status |-> "TRIAGE", title |-> "",
     source |-> "", deleted |-> TRUE]

\* a variant of Cascade for foreign keys without ON DELETE CASCADE
Cascade_none(table, p, gone) == table

\* ON DELETE CASCADE of every foreign key to projects(id)
Cascade(table, p, gone) ==
    [i \in DOMAIN table |-> IF table[i].projectId = p THEN gone ELSE table[i]]

\* deleteProject: only the owner; project.destroy() and the cascades
deleteProject(u, p) ==
    /\ u \in UserIds
    /\ p \in DOMAIN projects
    /\ IF ~ProjectExists(p)
         THEN /\ Respond("deleteProject", 404, 0)
              /\ UNCHANGED <<projects, members, accessRequests, invitations, bugs,
                             widgetTokens, integrations>>
         ELSE IF projects[p].ownerId # u
         THEN /\ Respond("deleteProject", 403, 0)
              /\ UNCHANGED <<projects, members, accessRequests, invitations, bugs,
                             widgetTokens, integrations>>
         ELSE /\ projects' = [projects EXCEPT ![p] = DeletedProject]
              /\ members' = [m \in {x \in DOMAIN members : x.projectId # p} |-> members[m]]
              /\ accessRequests' = Cascade(accessRequests, p, DeletedRequest)
              /\ invitations' = Cascade(invitations, p, DeletedInvitation)
              /\ bugs' = Cascade(bugs, p, DeletedBug)
              /\ widgetTokens' = [widgetTokens EXCEPT ![p] = NoWidget]
              /\ integrations' = [integrations EXCEPT ![p] = NoIntegration]
              /\ Respond("deleteProject", 200, 0)
    /\ UNCHANGED <<users, aux, inflight, tokensIssued>>

\* ------------------------------------------------------------------ signup
\* Invitation.findAll({ where: { email: email.toLowerCase(), status: 'PENDING',
\*                               expiresAt: { [Op.gt]: new Date() } } })
PendingInvitationsFor(email) ==
    {i \in DOMAIN invitations : InvitationOpen(i) /\ invitations[i].email = toLowerCase(email)}

\* signup, up to User.create: 400 when the e-mail is taken
signup(email) ==
    /\ IF UserByEmail(email) # {}
         THEN Respond("signup", 400, 0) /\ UNCHANGED inflight
         ELSE /\ CanStart
              /\ Len(users) + InFlightAt("signup", "createUser") < MaxUsers
              /\ Start([Cont0 EXCEPT !.op = "signup", !.pc = "createUser", !.email = email])
              /\ UNCHANGED resp
    /\ UNCHANGED <<store, aux>>

\* the loop of processPendingInvitations: the next invitation and the check
\* whether the user is a member already, or the response when none is left.
\* `c` is the request in flight, `userId` the user signup has created.
NextInvitation(c, userId, left) ==
    IF left = {}
    THEN Finish(c) /\ Respond("signup", 201, c.count)
    ELSE /\ \E i \in left :
              Continue(c, [c EXCEPT
                  !.userId = userId, !.row = i, !.left = left,
                  !.pc = IF IsMember(invitations[i].projectId, userId)
                         THEN "updateInvitation" ELSE "createMember"])
         /\ UNCHANGED resp

\* signup, User.create (users.email is UNIQUE) and the findAll of
\* processPendingInvitations
signup_createUser(c) ==
    /\ c.op = "signup" /\ c.pc = "createUser"
    /\ IF UserByEmail(c.email) # {}
         THEN Finish(c) /\ Respond("signup", 500, 0) /\ UNCHANGED users
         ELSE /\ users' = Append(users, c.email)
              /\ NextInvitation(c, Len(users) + 1, PendingInvitationsFor(c.email))
    /\ UNCHANGED <<projects, members, accessRequests, invitations, bugs, aux>>

\* processPendingInvitations, ProjectMember.create: an error is caught, the
\* function returns 0 and signup goes on to its 201
signup_createMember(c) ==
    /\ c.op = "signup" /\ c.pc = "createMember"
    /\ LET p == invitations[c.row].projectId IN
       IF MemberInsertOk(p, c.userId)
         THEN /\ members' = InsertMember(p, c.userId, invitations[c.row].role)
              /\ Continue(c, [c EXCEPT !.pc = "updateInvitation", !.count = c.count + 1])
              /\ UNCHANGED resp
         ELSE /\ Finish(c) /\ Respond("signup", 201, 0)
              /\ UNCHANGED members
    /\ UNCHANGED <<users, projects, accessRequests, invitations, bugs, aux>>

\* invitation.update({ status: 'ACCEPTED' }): UPDATE ... WHERE id
AcceptedInvitations(i) ==
    IF i \in Live(invitations)
    THEN [invitations EXCEPT ![i].status = "ACCEPTED"]
    ELSE invitations

\* processPendingInvitations, invitation.update, then the next invitation
signup_updateInvitation(c) ==
    /\ c.op = "signup" /\ c.pc = "updateInvitation"
    /\ invitations' = AcceptedInvitations(c.row)
    /\ NextInvitation(c, c.userId, c.left \ {c.row})
    /\ UNCHANGED <<users, projects, members, accessRequests, bugs, aux>>

\* ----------------------------------------------------------------- members
\* isOwner || membership?.role === 'ADMIN'
IsOwnerOrAdmin(p, u) == projects[p].ownerId = u \/ RoleOf(p, u) = "ADMIN"

\* Invitation.findOne({ where: { email, projectId, status: 'PENDING' } })
ExistingInvite(email, p) ==
    {i \in Live(invitations) :
        /\ invitations[i].email = email
        /\ invitations[i].projectId = p
        /\ invitations[i].status = "PENDING"}

\* the invitation rows, written and about to be written
InvitationsPlanned == Len(invitations) + InFlightAt("addMember", "createInvitation")

\* addMember, the reads and checks
addMember(u, p, email, role) ==
    /\ u \in UserIds
    /\ p \in DOMAIN projects
    /\ IF ~ProjectExists(p)
         THEN Respond("addMember", 404, 0) /\ UNCHANGED inflight
         ELSE IF ~IsOwnerOrAdmin(p, u)
         THEN Respond("addMember", 403, 0) /\ UNCHANGED inflight
         ELSE IF UserByEmail(email) # {}
         THEN LET newMember == CHOOSE m \in UserByEmail(email) : TRUE IN
              IF newMember = projects[p].ownerId \/ IsMember(p, newMember)
              THEN Respond("addMember", 400, 0) /\ UNCHANGED inflight
              ELSE /\ CanStart
                   /\ Start([Cont0 EXCEPT !.op = "addMember", !.pc = "createMember",
                                !.userId = u, !.projectId = p, !.subject = newMember,
                                !.role = role])
                   /\ UNCHANGED resp
         ELSE IF ExistingInvite(email, p) # {}
         THEN Respond("addMember", 400, 0) /\ UNCHANGED inflight
         ELSE /\ CanStart
              /\ Start([Cont0 EXCEPT !.op = "addMember", !.pc = "createInvitation",
                           !.userId = u, !.projectId = p, !.email = email, !.role = role])
              /\ UNCHANGED resp
    /\ UNCHANGED <<store, aux>>

\* addMember, ProjectMember.create
addMember_createMember(c) ==
    /\ c.op = "addMember" /\ c.pc = "createMember"
    /\ IF MemberInsertOk(c.projectId, c.subject)
         THEN /\ members' = InsertMember(c.projectId, c.subject, c.role)
              /\ Respond("addMember", 201, 0)
         ELSE Respond("addMember", 500, 0) /\ UNCHANGED members
    /\ Finish(c)
    /\ UNCHANGED <<users, projects, accessRequests, invitations, bugs, aux>>

\* addMember, Invitation.create: the token is fresh, the expiry 7 days ahead
addMember_createInvitation_then(c, suspend) ==
    /\ c.op = "addMember" /\ c.pc = "createInvitation"
    /\ IF ProjectExists(c.projectId)
         THEN /\ invitations' = Append(invitations,
                    [email |-> c.email, projectId |-> c.projectId, role |-> c.role,
                     status |-> "PENDING", expiresAt |-> now + InvitationTTL,
                     deleted |-> FALSE])
              /\ Rest(suspend, c, "addMember", 201, {}, "invitation")
         ELSE Respond("addMember", 500, 0) /\ UNCHANGED invitations /\ Finish(c)
    /\ UNCHANGED <<users, projects, members, accessRequests, bugs, aux>>
addMember_createInvitation(c) == addMember_createInvitation_then(c, FALSE)

\* updateMemberRole: only the owner
updateMemberRole_then(u, p, memberId, role, suspend) ==
    /\ u \in UserIds
    /\ p \in DOMAIN projects
    /\ IF ~ProjectExists(p)
         THEN Respond("updateMemberRole", 404, 0) /\ UNCHANGED <<members, inflight>>
         ELSE IF projects[p].ownerId # u
         THEN Respond("updateMemberRole", 403, 0) /\ UNCHANGED <<members, inflight>>
         ELSE IF ~IsMember(p, memberId)
         THEN Respond("updateMemberRole", 404, 0) /\ UNCHANGED <<members, inflight>>
         ELSE LET m == CHOOSE x \in MemberRows(p, memberId) : TRUE IN
              /\ members' = (members (-) SetToBag({m})) (+) SetToBag({[m EXCEPT !.role = role]})
              /\ Rest(suspend, [Cont0 EXCEPT !.userId = u, !.projectId = p, !.subject = memberId,
                                    !.role = role],
                      "updateMemberRole", 200, {}, "roleChanged")
    /\ UNCHANGED <<users, projects, accessRequests, invitations, bugs, aux>>
updateMemberRole(u, p, memberId, role) ==
    updateMemberRole_then(u, p, memberId, role, FALSE)

\* removeMember: the owner, or the member themself
removeMember_then(u, p, memberId, suspend) ==
    /\ u \in UserIds
    /\ p \in DOMAIN projects
    /\ IF ~ProjectExists(p)
         THEN Respond("removeMember", 404, 0) /\ UNCHANGED <<members, inflight>>
         ELSE IF projects[p].ownerId # u /\ memberId # u
         THEN Respond("removeMember", 403, 0) /\ UNCHANGED <<members, inflight>>
         ELSE IF ~IsMember(p, memberId)
         THEN Respond("removeMember", 404, 0) /\ UNCHANGED <<members, inflight>>
         ELSE LET m == CHOOSE x \in MemberRows(p, memberId) : TRUE IN
              /\ members' = members (-) SetToBag({m})
              /\ IF memberId # u
                   THEN Rest(suspend, [Cont0 EXCEPT !.userId = u, !.projectId = p,
                                           !.subject = memberId],
                             "removeMember", 200, {}, "memberRemoved")
                   ELSE Respond("removeMember", 200, 0) /\ UNCHANGED inflight
    /\ UNCHANGED <<users, projects, accessRequests, invitations, bugs, aux>>
removeMember(u, p, memberId) == removeMember_then(u, p, memberId, FALSE)

\* --------------------------------------------------------- access requests
\* requestAccess, the reads and checks
requestAccess(u, p) ==
    /\ u \in UserIds
    /\ p \in DOMAIN projects
    /\ IF ~ProjectExists(p)
         THEN Respond("requestAccess", 404, 0) /\ UNCHANGED inflight
         ELSE IF projects[p].ownerId = u \/ IsMember(p, u) \/ PendingRequests(p, u) # {}
         THEN Respond("requestAccess", 400, 0) /\ UNCHANGED inflight
         ELSE /\ CanStart
              /\ Len(accessRequests) + InFlightAt("requestAccess", "create") < MaxRequests
              /\ Start([Cont0 EXCEPT !.op = "requestAccess", !.pc = "create",
                           !.userId = u, !.projectId = p])
              /\ UNCHANGED resp
    /\ UNCHANGED <<store, aux>>

\* requestAccess, AccessRequest.create: status defaults to PENDING
requestAccess_create_then(c, suspend) ==
    /\ c.op = "requestAccess" /\ c.pc = "create"
    /\ IF ProjectExists(c.projectId) /\ RequestUniqueOk(NULL, c.projectId, c.userId, "PENDING")
         THEN /\ accessRequests' = Append(accessRequests,
                    [projectId |-> c.projectId, userId |-> c.userId, status |-> "PENDING",
                     reviewedBy |-> NULL, deleted |-> FALSE])
              /\ Rest(suspend, c, "requestAccess", 201, {}, "newRequest")
         ELSE Respond("requestAccess", 500, 0) /\ UNCHANGED accessRequests /\ Finish(c)
    /\ UNCHANGED <<users, projects, members, invitations, bugs, aux>>
requestAccess_create(c) == requestAccess_create_then(c, FALSE)

\* approveAccessRequest / rejectAccessRequest, the reads and checks: the
\* request exists, the caller owns its project, the request is PENDING
reviewAccessRequest(op, u, r) ==
    /\ u \in UserIds
    /\ r \in DOMAIN accessRequests
    /\ IF r \notin Live(accessRequests)
         THEN Respond(op, 404, 0) /\ UNCHANGED inflight
         ELSE IF projects[accessRequests[r].projectId].ownerId # u
         THEN Respond(op, 403, 0) /\ UNCHANGED inflight
         ELSE IF accessRequests[r].status # "PENDING"
         THEN Respond(op, 400, 0) /\ UNCHANGED inflight
         ELSE /\ CanStart
              /\ Start([Cont0 EXCEPT !.op = op, !.pc = "save", !.userId = u, !.row = r,
                           !.projectId = accessRequests[r].projectId,
                           !.subject = accessRequests[r].userId])
              /\ UNCHANGED resp
    /\ UNCHANGED <<store, aux>>

approveAccessRequest(u, r) == reviewAccessRequest("approveAccessRequest", u, r)

rejectAccessRequest(u, r) == reviewAccessRequest("rejectAccessRequest", u, r)

\* accessRequest.status = status; accessRequest.save(): UPDATE access_requests
\* SET status WHERE id.  TRUE when the statement succeeds; a row a cascade has
\* removed is updated by no statement and no error is raised.
SaveOk(c, status) ==
    c.row \in Live(accessRequests) => RequestUniqueOk(c.row, c.projectId, c.subject, status)
SavedRequests(c, status) ==
    IF c.row \in Live(accessRequests)
    THEN [accessRequests EXCEPT ![c.row].status = status]
    ELSE accessRequests

\* approveAccessRequest, accessRequest.save()
approveAccessRequest_save(c) ==
    /\ c.op = "approveAccessRequest" /\ c.pc = "save"
    /\ IF SaveOk(c, "APPROVED")
         THEN /\ accessRequests' = SavedRequests(c, "APPROVED")
              /\ Continue(c, [c EXCEPT !.pc = "createMember"])
              /\ UNCHANGED resp
         ELSE /\ Finish(c) /\ Respond("approveAccessRequest", 500, 0)
              /\ UNCHANGED accessRequests
    /\ UNCHANGED <<users, projects, members, invitations, bugs, aux>>

\* approveAccessRequest, ProjectMember.create at role MEMBER
approveAccessRequest_createMember_then(c, suspend) ==
    /\ c.op = "approveAccessRequest" /\ c.pc = "createMember"
    /\ IF MemberInsertOk(c.projectId, c.subject)
         THEN /\ members' = InsertMember(c.projectId, c.subject, "MEMBER")
              /\ Rest(suspend, c, "approveAccessRequest", 200, {}, "approved")
              /\ approvals' = approvals (+) SetToBag({c.row})
         ELSE /\ Respond("approveAccessRequest", 500, 0) /\ Finish(c)
              /\ UNCHANGED <<members, approvals>>
    /\ UNCHANGED <<users, projects, accessRequests, invitations, bugs, requestIndex, now>>
approveAccessRequest_createMember(c) ==
    approveAccessRequest_createMember_then(c, FALSE)

\* rejectAccessRequest, accessRequest.save()
rejectAccessRequest_save_then(c, suspend) ==
    /\ c.op = "rejectAccessRequest" /\ c.pc = "save"
    /\ IF SaveOk(c, "REJECTED")
         THEN /\ accessRequests' = SavedRequests(c, "REJECTED")
              /\ Rest(suspend, c, "rejectAccessRequest", 200, {}, "rejected")
         ELSE Respond("rejectAccessRequest", 500, 0) /\ UNCHANGED accessRequests
              /\ Finish(c)
    /\ UNCHANGED <<users, projects, members, invitations, bugs, aux>>
rejectAccessRequest_save(c) == rejectAccessRequest_save_then(c, FALSE)

\* getAccessRequests: the owner and an ADMIN get every request of the project,
\* any other authenticated caller gets 200 with an empty list
getAccessRequests(u, p) ==
    /\ u \in UserIds
    /\ p \in DOMAIN projects
    /\ resp' = IF ~ProjectExists(p) THEN Response("getAccessRequests", 404, 0, {}, "")
               ELSE IF ~(projects[p].ownerId = u \/ RoleOf(p, u) = "ADMIN")
               THEN Response("getAccessRequests", 200, 0, {}, "")
               ELSE Response("getAccessRequests", 200,
                             Cardinality({r \in Live(accessRequests) :
                                             accessRequests[r].projectId = p}), {}, "")
    /\ UNCHANGED <<store, aux, inflight>>

\* ------------------------------------------------------------- invitations
\* acceptInvitation, the reads and checks: the token names an open
\* invitation, its e-mail is the caller's up to case
acceptInvitation(u, token) ==
    /\ u \in UserIds
    /\ token \in DOMAIN invitations
    /\ IF ~InvitationOpen(token)
         THEN Respond("acceptInvitation", 404, 0) /\ UNCHANGED inflight
         ELSE IF toLowerCase(invitations[token].email) # toLowerCase(users[u])
         THEN Respond("acceptInvitation", 403, 0) /\ UNCHANGED inflight
         ELSE /\ CanStart
              /\ Start([Cont0 EXCEPT !.op = "acceptInvitation", !.userId = u, !.row = token,
                           !.projectId = invitations[token].projectId,
                           !.role = invitations[token].role,
                           !.pc = IF IsMember(invitations[token].projectId, u)
                                  THEN "alreadyMember" ELSE "createMember"])
              /\ UNCHANGED resp
    /\ UNCHANGED <<store, aux>>

\* acceptInvitation, ProjectMember.create; an error is answered 500
acceptInvitation_createMember(c) ==
    /\ c.op = "acceptInvitation" /\ c.pc = "createMember"
    /\ IF MemberInsertOk(c.projectId, c.userId)
         THEN /\ members' = InsertMember(c.projectId, c.userId, c.role)
              /\ Continue(c, [c EXCEPT !.pc = "updateInvitation"])
              /\ UNCHANGED resp
         ELSE /\ Finish(c) /\ Respond("acceptInvitation", 500, 0)
              /\ UNCHANGED members
    /\ UNCHANGED <<users, projects, accessRequests, invitations, bugs, aux>>

\* acceptInvitation, invitation.update({ status: 'ACCEPTED' }): 200, or 400
\* when the caller was a member already
acceptInvitation_updateInvitation(c) ==
    /\ c.op = "acceptInvitation" /\ c.pc \in {"updateInvitation", "alreadyMember"}
    /\ invitations' = AcceptedInvitations(c.row)
    /\ Finish(c)
    /\ Respond("acceptInvitation", IF c.pc = "alreadyMember" THEN 400 ELSE 200, 0)
    /\ UNCHANGED <<users, projects, members, accessRequests, bugs, aux>>

\* -------------------------------------------------------------------- bugs
\* Bug.findAll({ where: { projectId } })
BugsOf(p) == {b \in Live(bugs) : bugs[b].projectId = p}

\* the access check of the read endpoints: the membership is looked up only
\* for an authenticated caller who is not the owner
CanRead(p, u) ==
    \/ projects[p].isPublic
    \/ u = projects[p].ownerId
    \/ (u # NULL /\ IsMember(p, u))

\* getBugsByProject (optionalAuth)
getBugsByProject(u, p) ==
    /\ u \in Callers
    /\ p \in DOMAIN projects
    /\ resp' = IF ~ProjectExists(p) THEN Response("getBugsByProject", 404, 0, {}, "")
               ELSE IF ~CanRead(p, u) THEN Response("getBugsByProject", 403, 0, {}, "")
               ELSE Response("getBugsByProject", 200, 0, BugsOf(p), "")
    /\ UNCHANGED <<store, aux, inflight>>

\* getBugById (optionalAuth): on a private project the membership is looked
\* up for every caller but the owner, also with userId undefined; whether
\* that query finds nothing (403) or is refused by the ORM (500) depends on
\* the ORM's version
getBugById(u, b) ==
    /\ u \in Callers
    /\ b \in DOMAIN bugs
    /\ IF b \notin Live(bugs)
         THEN resp' = Response("getBugById", 404, 0, {}, "")
         ELSE LET p == bugs[b].projectId IN
              IF projects[p].isPublic \/ u = projects[p].ownerId
              THEN resp' = Response("getBugById", 200, 0, {b}, "")
              ELSE IF u = NULL
              THEN \E status \in {403, 500} : resp' = Response("getBugById", status, 0, {}, "")
              ELSE IF ~IsMember(p, u)
              THEN resp' = Response("getBugById", 403, 0, {}, "")
              ELSE resp' = Response("getBugById", 200, 0, {b}, "")
    /\ UNCHANGED <<store, aux, inflight>>

\* a variant of canCreate that lets every member in, a VIEWER too
canCreate_anyRole(p, u) == u = projects[p].ownerId \/ IsMember(p, u)

\* createBug: isOwner || memberRole === 'ADMIN' || memberRole === 'MEMBER'
canCreate(p, u) ==
    u = projects[p].ownerId \/ RoleOf(p, u) = "ADMIN" \/ RoleOf(p, u) = "MEMBER"

\* createBug: status TRIAGE, the reporter is the caller
createBug(u, p, title) ==
    /\ u \in UserIds
    /\ p \in DOMAIN projects
    /\ IF ~ProjectExists(p)
         THEN resp' = Response("createBug", 404, 0, {}, "") /\ UNCHANGED bugs
         ELSE IF ~canCreate(p, u)
         THEN resp' = Response("createBug", 403, 0, {}, "") /\ UNCHANGED bugs
         ELSE /\ Len(bugs) < MaxBugs
              /\ bugs' = Append(bugs, [projectId |-> p, reporterId |-> u, status |-> "TRIAGE",
                                       title |-> title, source |-> "INTERNAL_QA",
                                       deleted |-> FALSE])
              /\ resp' = Response("createBug", 201, 0, {Len(bugs) + 1}, "")
    /\ UNCHANGED <<users, projects, members, accessRequests, invitations, aux, inflight>>

\* a variant of canEdit without the reporter's right
canEdit_noReporter(b, u) ==
    LET p == bugs[b].projectId IN
    u = projects[p].ownerId \/ RoleOf(p, u) = "ADMIN" \/ RoleOf(p, u) = "MEMBER"

\* updateBug: isOwner || isReporter || memberRole === 'ADMIN' || memberRole === 'MEMBER'
canEdit(b, u) ==
    LET p == bugs[b].projectId IN
    \/ u = projects[p].ownerId
    \/ u = bugs[b].reporterId
    \/ RoleOf(p, u) = "ADMIN"
    \/ RoleOf(p, u) = "MEMBER"

\* updateBug: the title stands for the fields of the body
updateBug(u, b, title) ==
    /\ u \in UserIds
    /\ b \in DOMAIN bugs
    /\ IF b \notin Live(bugs)
         THEN resp' = Response("updateBug", 404, 0, {}, "") /\ UNCHANGED bugs
         ELSE IF ~canEdit(b, u)
         THEN resp' = Response("updateBug", 403, 0, {}, "") /\ UNCHANGED bugs
         ELSE /\ bugs' = [bugs EXCEPT ![b].title = title]
              /\ resp' = Response("updateBug", 200, 0, {b}, "")
    /\ UNCHANGED <<users, projects, members, accessRequests, invitations, aux, inflight>>

\* a variant of canUpdateStatus that lets the reporter in as well
canUpdateStatus_reporter(b, u) ==
    LET p == bugs[b].projectId IN
    \/ u = projects[p].ownerId
    \/ u = bugs[b].reporterId
    \/ RoleOf(p, u) = "ADMIN"
    \/ RoleOf(p, u) = "MEMBER"

\* updateBugStatus: isOwner || memberRole === 'ADMIN' || memberRole === 'MEMBER'
canUpdateStatus(b, u) ==
    LET p == bugs[b].projectId IN
    u = projects[p].ownerId \/ RoleOf(p, u) = "ADMIN" \/ RoleOf(p, u) = "MEMBER"

\* updateBugStatus: any status to any status
updateBugStatus_then(u, b, status, suspend) ==
    /\ u \in UserIds
    /\ b \in DOMAIN bugs
    /\ IF b \notin Live(bugs)
         THEN resp' = Response("updateBugStatus", 404, 0, {}, "") /\ UNCHANGED <<bugs, inflight>>
         ELSE IF ~canUpdateStatus(b, u)
         THEN resp' = Response("updateBugStatus", 403, 0, {}, "") /\ UNCHANGED <<bugs, inflight>>
         ELSE /\ bugs' = [bugs EXCEPT ![b].status = status]
              /\ IF status = "DEPLOYED" /\ bugs[b].reporterId # NULL
                   THEN Rest(suspend, [Cont0 EXCEPT !.userId = u, !.row = b,
                                           !.projectId = bugs[b].projectId],
                             "updateBugStatus", 200, {b}, "bugResolved")
                   ELSE /\ resp' = Response("updateBugStatus", 200, 0, {b}, "")
                        /\ UNCHANGED inflight
    /\ UNCHANGED <<users, projects, members, accessRequests, invitations, aux>>
updateBugStatus(u, b, status) == updateBugStatus_then(u, b, status, FALSE)

\* a variant of canDelete that lets a MEMBER in as well
canDelete_member(b, u) ==
    LET p == bugs[b].projectId IN
    \/ u = projects[p].ownerId
    \/ u = bugs[b].reporterId
    \/ RoleOf(p, u) = "ADMIN"
    \/ RoleOf(p, u) = "MEMBER"

\* deleteBug: isOwner || isReporter || memberRole === 'ADMIN'
canDelete(b, u) ==
    LET p == bugs[b].projectId IN
    u = projects[p].ownerId \/ u = bugs[b].reporterId \/ RoleOf(p, u) = "ADMIN"

\* deleteBug: bug.destroy()
deleteBug(u, b) ==
    /\ u \in UserIds
    /\ b \in DOMAIN bugs
    /\ IF b \notin Live(bugs)
         THEN resp' = Response("deleteBug", 404, 0, {}, "") /\ UNCHANGED bugs
         ELSE IF ~canDelete(b, u)
         THEN resp' = Response("deleteBug", 403, 0, {}, "") /\ UNCHANGED bugs
         ELSE /\ bugs' = [bugs EXCEPT ![b] = DeletedBug]
              /\ resp' = Response("deleteBug", 200, 0, {}, "")
    /\ UNCHANGED <<users, projects, members, accessRequests, invitations, aux, inflight>>

\* getProjectBySlug (optionalAuth): bugCount and userRole, OWNER for the owner
getProjectBySlug(u, p) ==
    /\ u \in Callers
    /\ p \in DOMAIN projects
    /\ resp' = IF ~ProjectExists(p) THEN Response("getProjectBySlug", 404, 0, {}, "")
               ELSE IF ~CanRead(p, u) THEN Response("getProjectBySlug", 403, 0, {}, "")
               ELSE Response("getProjectBySlug", 200, Cardinality(BugsOf(p)), {},
                             IF u = projects[p].ownerId THEN "OWNER"
                             ELSE IF u # NULL /\ IsMember(p, u) THEN RoleOf(p, u)
                             ELSE "")
    /\ UNCHANGED <<store, aux, inflight>>

\* ------------------------------------------------------------------- clock
Tick ==
    /\ now < MaxTime
    /\ now' = now + 1
    /\ UNCHANGED <<store, requestIndex, approvals, inflight, resp>>

\* --------------------------------------------------------- widget handlers
\* generateWidgetToken: owner or ADMIN; a new token, the row created with
\* an empty allowlist and enabled, or only its token replaced
generateWidgetToken(u, p) ==
    /\ u \in UserIds
    /\ p \in DOMAIN projects
    /\ IF ~ProjectExists(p)
         THEN Respond("generateWidgetToken", 404, 0) /\ UNCHANGED widgetVars
         ELSE IF ~IsOwnerOrAdmin(p, u)
         THEN Respond("generateWidgetToken", 403, 0) /\ UNCHANGED widgetVars
         ELSE /\ tokensIssued < MaxTokens
              /\ tokensIssued' = tokensIssued + 1
              /\ widgetTokens' =
                    IF widgetTokens[p] # NoWidget
                    THEN [widgetTokens EXCEPT ![p].token = tokensIssued + 1]
                    ELSE [widgetTokens EXCEPT ![p] =
                            [token |-> tokensIssued + 1, allowedOrigins |-> {},
                             enabled |-> TRUE]]
              /\ Respond("generateWidgetToken", 200, 0)
    /\ UNCHANGED <<store, aux, held, side, inflight>>

\* updateWidgetSettings: owner or ADMIN; each of allowedOrigins and enabled
\* is written when the body has it
updateWidgetSettings(u, p, hasOrigins, allowedOrigins, hasEnabled, enabled) ==
    /\ u \in UserIds
    /\ p \in DOMAIN projects
    /\ IF ~ProjectExists(p)
         THEN Respond("updateWidgetSettings", 404, 0) /\ UNCHANGED widgetTokens
         ELSE IF ~IsOwnerOrAdmin(p, u)
         THEN Respond("updateWidgetSettings", 403, 0) /\ UNCHANGED widgetTokens
         ELSE IF widgetTokens[p] = NoWidget
         THEN Respond("updateWidgetSettings", 404, 0) /\ UNCHANGED widgetTokens
         ELSE /\ widgetTokens' = [widgetTokens EXCEPT
                    ![p].allowedOrigins = IF hasOrigins THEN allowedOrigins ELSE @,
                    ![p].enabled = IF hasEnabled THEN enabled ELSE @]
              /\ Respond("updateWidgetSettings", 200, 0)
    /\ UNCHANGED <<store, aux, held, side, inflight, tokensIssued>>

\* deleteWidgetToken: owner or ADMIN; WidgetToken.destroy
deleteWidgetToken(u, p) ==
    /\ u \in UserIds
    /\ p \in DOMAIN projects
    /\ IF ~ProjectExists(p)
         THEN Respond("deleteWidgetToken", 404, 0) /\ UNCHANGED widgetTokens
         ELSE IF ~IsOwnerOrAdmin(p, u)
         THEN Respond("deleteWidgetToken", 403, 0) /\ UNCHANGED widgetTokens
         ELSE /\ widgetTokens' = [widgetTokens EXCEPT ![p] = NoWidget]
              /\ Respond("deleteWidgetToken", 200, 0)
    /\ UNCHANGED <<store, aux, held, side, inflight, tokensIssued>>

\* the origin check of the public endpoints: made only when the allowlist
\* is not empty and the request has an Origin or Referer header
OriginAllowed(w, header) ==
    \/ ~(w.allowedOrigins # {} /\ header # "")
    \/ URLOrigin(header) \in w.allowedOrigins
    \/ "*" \in w.allowedOrigins

\* the answer of the token and origin checks: 0 when they pass
WidgetGate(token, header) ==
    IF token = 0 \/ WidgetByToken(token) = {} THEN 404
    ELSE LET w == widgetTokens[CHOOSE p \in WidgetByToken(token) : TRUE] IN
         IF ~w.enabled THEN 403
         ELSE IF w.allowedOrigins # {} /\ header # "" /\ URLOrigin(header) = "throws"
         THEN 500
         ELSE IF ~OriginAllowed(w, header) THEN 403
         ELSE 0

\* getWidgetConfig (public)
getWidgetConfig(token, header) ==
    /\ Respond("getWidgetConfig",
               IF WidgetGate(token, header) = 0 THEN 200 ELSE WidgetGate(token, header), 0)
    /\ UNCHANGED <<store, aux, held, side, inflight, widgetVars>>

\* the source field of the body of createWidgetBug; "" is no source given
Sources == {"", "PRODUCTION_ALERT"}

\* a variant of WidgetBug that files every report as a customer report
WidgetBug_customerOnly(p, title, source) ==
    [projectId |-> p, reporterId |-> NULL, status |-> "TRIAGE", title |-> title,
     source |-> "CUSTOMER_REPORT", deleted |-> FALSE]

\* the row Bug.create is given: no reporter, source || 'CUSTOMER_REPORT'
WidgetBug(p, title, source) ==
    [projectId |-> p, reporterId |-> NULL, status |-> "TRIAGE", title |-> title,
     source |-> IF source = "" THEN "CUSTOMER_REPORT" ELSE source, deleted |-> FALSE]

\* createWidgetBug (public): the checks, then Bug.create without reporter
createWidgetBug(token, header, title, source) ==
    /\ IF WidgetGate(token, header) # 0
         THEN Respond("createWidgetBug", WidgetGate(token, header), 0) /\ UNCHANGED bugs
         ELSE /\ Len(bugs) < MaxBugs
              /\ bugs' = Append(bugs,
                    WidgetBug(CHOOSE p \in WidgetByToken(token) : TRUE, title, source))
              /\ resp' = Response("createWidgetBug", 201, 0, {Len(bugs) + 1}, "")
    /\ UNCHANGED <<users, projects, members, accessRequests, invitations, aux, held, side,
                   inflight, widgetVars>>

\* --------------------------------------------------------------------- CORS
\* config.allowedOrigins: the frontend
ConfigOrigins == {"https://app"}
\* the Origin header of a request, "" when there is none
RequestOrigins == {"", "https://app", "https://a", "https://b"}

\* WidgetToken.findAll({ where: { enabled: true } }), the allowedOrigins together
EnabledOrigins ==
    UNION {widgetTokens[p].allowedOrigins :
              p \in {q \in DOMAIN widgetTokens :
                        widgetTokens[q] # NoWidget /\ widgetTokens[q].enabled}}

\* a variant of Refreshed that forgets the snapshot when the lookup fails
Refreshed_failOpen(dbOk) ==
    IF now - widgetOriginsCacheTime < WIDGET_CACHE_TTL THEN cachedWidgetOrigins
    ELSE IF dbOk THEN EnabledOrigins
    ELSE {}

\* getWidgetOrigins: the snapshot while it is fresh; after the TTL what the
\* lookup reads, or the snapshot as it is when the lookup throws
Refreshed(dbOk) ==
    IF now - widgetOriginsCacheTime < WIDGET_CACHE_TTL THEN cachedWidgetOrigins
    ELSE IF dbOk THEN EnabledOrigins
    ELSE cachedWidgetOrigins

getWidgetOrigins(dbOk) ==
    /\ cachedWidgetOrigins' = Refreshed(dbOk)
    /\ widgetOriginsCacheTime' =
          IF now - widgetOriginsCacheTime >= WIDGET_CACHE_TTL /\ dbOk
          THEN now ELSE widgetOriginsCacheTime

\* the origin callback of cors(): the request goes on (200 stands for that)
\* or is refused with an Error, which the error handler answers 500; n is the
\* size of the set of widget origins the callback consulted
corsOrigin(origin, dbOk) ==
    /\ origin \in RequestOrigins
    /\ IF origin = "" \/ origin \in ConfigOrigins
         THEN Respond("cors", 200, 0) /\ UNCHANGED caches
         ELSE /\ getWidgetOrigins(dbOk)
              /\ Respond("cors",
                         IF origin \in cachedWidgetOrigins' \/ "*" \in cachedWidgetOrigins'
                         THEN 200 ELSE 500, Cardinality(cachedWidgetOrigins'))
    /\ UNCHANGED <<store, aux, held, inflight, widgetVars, integrations, mail, initiated,
                   identity>>

\* ----------------------------------------------------------- identity cache
\* the positions of the user's entry in userCache (a Map: at most one)
CachedAt(u) == {i \in DOMAIN userCache : userCache[i].id = u}

\* userCache.delete(userId)
Without(cache, u) == SelectSeq(cache, LAMBDA e : e.id # u)

\* getCachedUser: the entry, unless there is none or it is stale
CacheHit(u) ==
    \E i \in CachedAt(u) : ~(now - userCache[i].cachedAt > USER_CACHE_TTL)

\* a variant of Oldest that takes the last key of the Map
Oldest_last(cache) == Len(cache)

\* userCache.keys().next().value: the first key in the Map's order
Oldest(cache) == 1

\* setCachedUser, the eviction: one entry goes when size > 500
Evicted(cache) ==
    IF Len(cache) > UserCacheLimit
    THEN [i \in 1..(Len(cache) - 1) |->
            IF i < Oldest(cache) THEN cache[i] ELSE cache[i + 1]]
    ELSE cache

\* setCachedUser, userCache.set: a key that is there keeps its place in the
\* Map's order and gets the new value, a new key goes to the end
setCachedUser(cache, u) ==
    LET kept == Evicted(cache) IN
    IF \E i \in DOMAIN kept : kept[i].id = u
    THEN [i \in DOMAIN kept |->
            IF kept[i].id = u THEN [kept[i] EXCEPT !.cachedAt = now] ELSE kept[i]]
    ELSE Append(kept, [id |-> u, cachedAt |-> now, stamp |-> cacheInserts + 1])

\* authenticate with a valid token of user u, up to the await: a hit goes on
\* to the handler (200 stands for next()), a miss queries the store
authenticate(u) ==
    /\ u \in UserIds
    /\ IF CacheHit(u)
         THEN /\ Respond("authenticate", 200, 0)
              /\ UNCHANGED <<userCache, inflight>>
         ELSE /\ CanStart
              /\ cacheInserts + InFlightAt("authenticate", "findByPk") < MaxInserts
              /\ userCache' = Without(userCache, u)
              /\ Start([Cont0 EXCEPT !.op = "authenticate", !.pc = "findByPk", !.userId = u])
              /\ UNCHANGED resp
    /\ UNCHANGED <<store, aux, held, widgetVars, integrations, mail, initiated, caches,
                   cacheInserts>>

\* authenticate, after User.findByPk: the user is cached; n is the number of
\* entries the insertion evicted
authenticate_findByPk(c) ==
    /\ c.op = "authenticate" /\ c.pc = "findByPk"
    /\ userCache' = setCachedUser(userCache, c.userId)
    /\ cacheInserts' = IF \E i \in DOMAIN Evicted(userCache) :
                              Evicted(userCache)[i].id = c.userId
                       THEN cacheInserts ELSE cacheInserts + 1
    /\ Respond("authenticate", 200, Len(userCache) - Len(Evicted(userCache)))
    /\ Finish(c)
    /\ UNCHANGED <<store, aux, held, widgetVars, integrations, mail, initiated, caches>>

\* --------------------------------------------------------- github handlers
\* initiateOAuth: owner or ADMIN; the answer carries the state, the
\* base64url text of { projectId, userId, ts }, which is stored nowhere
initiateOAuth(u, p) ==
    /\ u \in UserIds
    /\ p \in DOMAIN projects
    /\ resp' = IF ~ProjectExists(p) THEN Response("initiateOAuth", 404, 0, {}, "")
               ELSE IF ~IsOwnerOrAdmin(p, u) THEN Response("initiateOAuth", 403, 0, {}, "")
               ELSE Response("initiateOAuth", 200, 0, {}, "")
    /\ initiated' = IF resp'.status = 200 THEN initiated \cup {<<p, u>>} ELSE initiated
    /\ UNCHANGED <<store, aux, held, inflight, widgetVars, integrations, mail, caches,
                   identity>>

\* GitHubIntegration.upsert with a fresh id: a row of the project that is
\* there already is replaced or makes the insert fail on project_id,
\* depending on the conflict target the ORM's version picks
UpsertOutcomes(p) == IF integrations[p] = NoIntegration THEN {"written"} ELSE {"written", "error"}

\* handleCallback (no authentication): the state is decoded and believed;
\* the code is exchanged for the GitHub account that granted it
handleCallback(stateProject, stateUser, codeOk, ghUser) ==
    /\ stateProject \in 1..MaxProjects
    /\ stateUser \in 1..MaxUsers
    /\ IF ~codeOk \/ ~ProjectExists(stateProject) \/ stateUser \notin UserIds
         THEN Respond("handleCallback", 500, 0) /\ UNCHANGED integrations
         ELSE \E outcome \in UpsertOutcomes(stateProject) :
                IF outcome = "written"
                THEN /\ integrations' = [integrations EXCEPT ![stateProject] =
                            [connectedBy |-> stateUser, githubUsername |-> ghUser]]
                     /\ Respond("handleCallback", 302, 0)
                ELSE Respond("handleCallback", 500, 0) /\ UNCHANGED integrations
    /\ UNCHANGED <<store, aux, held, inflight, widgetVars, runtime>>

\* disconnectIntegration: owner or ADMIN
disconnectIntegration(u, p) ==
    /\ u \in UserIds
    /\ p \in DOMAIN projects
    /\ IF ~ProjectExists(p)
         THEN Respond("disconnectIntegration", 404, 0) /\ UNCHANGED integrations
         ELSE IF ~IsOwnerOrAdmin(p, u)
         THEN Respond("disconnectIntegration", 403, 0) /\ UNCHANGED integrations
         ELSE IF integrations[p] = NoIntegration
         THEN Respond("disconnectIntegration", 404, 0) /\ UNCHANGED integrations
         ELSE /\ integrations' = [integrations EXCEPT ![p] = NoIntegration]
              /\ Respond("disconnectIntegration", 200, 0)
    /\ UNCHANGED <<store, aux, held, inflight, widgetVars, runtime>>

\* -------------------------------------------------------------------- Next
\* e-mail addresses of the registered users
KnownEmails == {users[u] : u \in UserIds}

StepSignup ==
    \/ \E e \in Emails : signup(e)
    \/ \E c \in BagToSet(inflight) : signup_createUser(c)

StepProject ==
    \/ \E u \in UserIds, pub \in BOOLEAN : createProject(u, pub)

\* adding a registered user, and removing a member
StepDirectAdd ==
    \/ \E u \in UserIds, p \in DOMAIN projects, e \in KnownEmails, r \in MemberRole :
          addMember(u, p, e, r)
    \/ \E c \in BagToSet(inflight) : addMember_createMember(c)
    \/ \E u \in UserIds, p \in DOMAIN projects, m \in UserIds : removeMember(u, p, m)

StepRequests ==
    \/ \E u \in UserIds, p \in DOMAIN projects : requestAccess(u, p)
    \/ \E c \in BagToSet(inflight) : requestAccess_create(c)
    \/ \E u \in UserIds, r \in DOMAIN accessRequests : approveAccessRequest(u, r)
    \/ \E c \in BagToSet(inflight) : approveAccessRequest_save(c)
    \/ \E c \in BagToSet(inflight) : approveAccessRequest_createMember(c)
    \/ \E u \in UserIds, r \in DOMAIN accessRequests : rejectAccessRequest(u, r)
    \/ \E c \in BagToSet(inflight) : rejectAccessRequest_save(c)

StepOwner ==
    \/ \E u \in UserIds, p \in DOMAIN projects, pub \in BOOLEAN : updateProject(u, p, pub)
    \/ \E u \in UserIds, p \in DOMAIN projects : deleteProject(u, p)

StepRoles ==
    \/ \E u \in UserIds, p \in DOMAIN projects, m \in UserIds, r \in MemberRole :
          updateMemberRole(u, p, m, r)

StepView ==
    \/ \E u \in Callers, p \in DOMAIN projects : getProjectBySlug(u, p)

StepBugs ==
    \/ \E u \in Callers, p \in DOMAIN projects : getBugsByProject(u, p)
    \/ \E u \in Callers, b \in DOMAIN bugs : getBugById(u, b)
    \/ \E u \in UserIds, p \in DOMAIN projects, t \in Titles : createBug(u, p, t)
    \/ \E u \in UserIds, b \in DOMAIN bugs, t \in Titles : updateBug(u, b, t)
    \/ \E u \in UserIds, b \in DOMAIN bugs, st \in BugStatus : updateBugStatus(u, b, st)
    \/ \E u \in UserIds, b \in DOMAIN bugs : deleteBug(u, b)

\* inviting an address, the invitations a signup accepts, accepting by token
StepInvite ==
    \/ \E u \in UserIds, p \in DOMAIN projects, e \in Emails, r \in MemberRole :
          addMember(u, p, e, r) /\ InvitationsPlanned' <= MaxInvitations
    \/ \E c \in BagToSet(inflight) : addMember_createMember(c)
    \/ \E c \in BagToSet(inflight) : addMember_createInvitation(c)
    \/ \E c \in BagToSet(inflight) : signup_createMember(c)
    \/ \E c \in BagToSet(inflight) : signup_updateInvitation(c)
    \/ \E u \in UserIds, t \in DOMAIN invitations : acceptInvitation(u, t)
    \/ \E c \in BagToSet(inflight) : acceptInvitation_createMember(c)
    \/ \E c \in BagToSet(inflight) : acceptInvitation_updateInvitation(c)
    \/ \E u \in UserIds, p \in DOMAIN projects, m \in UserIds : removeMember(u, p, m)
    \/ Tick

\* access requests and direct membership
NextAccess ==
    /\ StepSignup \/ StepProject \/ StepDirectAdd \/ StepRequests
    /\ UNCHANGED <<held, widgetVars, side>>
SpecAccess == Init /\ [][NextAccess]_vars

\* the handlers below leave access_requests alone: one schema is enough
InitPlan == Init /\ requestIndex = "PLAN"

\* roles and bugs
NextBugs ==
    /\ StepSignup \/ StepProject \/ StepDirectAdd \/ StepRoles \/ StepView \/ StepBugs
    /\ UNCHANGED <<held, widgetVars, side>>
SpecBugs == InitPlan /\ [][NextBugs]_vars

\* projects and their owners
NextProjects ==
    /\ StepSignup \/ StepProject \/ StepDirectAdd \/ StepRoles \/ StepView \/ StepOwner
    /\ UNCHANGED <<held, widgetVars, side>>
SpecProjects == InitPlan /\ [][NextProjects]_vars

\* invitations
NextInvite ==
    /\ StepSignup \/ StepProject \/ StepInvite
    /\ UNCHANGED <<held, widgetVars, side>>
SpecInvite == InitPlan /\ [][NextInvite]_vars

\* the users who own a project, and the others
Owners == {projects[p].ownerId : p \in Live(projects)}
Others == UserIds \ Owners

\* the membership table as a set of (project, user, role)
RolesNow == {<<m.projectId, m.userId, m.role>> : m \in BagToSet(members)}

\* the membership handlers, called by a user of the set `callers`
StepMembersBy(callers) ==
    \/ \E u \in callers, p \in DOMAIN projects, e \in Emails, r \in MemberRole :
          addMember(u, p, e, r) /\ InvitationsPlanned' <= MaxInvitations
    \/ \E c \in BagToSet(inflight) : c.userId \in callers /\ addMember_createMember(c)
    \/ \E c \in BagToSet(inflight) : c.userId \in callers /\ addMember_createInvitation(c)
    \/ \E u \in callers, p \in DOMAIN projects, m \in UserIds, r \in MemberRole :
          updateMemberRole(u, p, m, r)
    \/ \E u \in callers, p \in DOMAIN projects, m \in UserIds : removeMember(u, p, m)
    \/ \E u \in callers, t \in DOMAIN invitations : acceptInvitation(u, t)
    \/ \E c \in BagToSet(inflight) : c.userId \in callers /\ acceptInvitation_createMember(c)
    \/ \E c \in BagToSet(inflight) : c.userId \in callers /\ acceptInvitation_updateInvitation(c)

\* a signup is the new user's own request
StepSignupInvited ==
    \/ \E c \in BagToSet(inflight) : signup_createMember(c)
    \/ \E c \in BagToSet(inflight) : signup_updateInvitation(c)

\* memberships and roles, with the history of the roles held while no owner acts
NextRoleHistory ==
    /\ \/ /\ StepProject \/ StepMembersBy(Owners)
          /\ held' = RolesNow'
       \/ /\ StepSignup \/ StepSignupInvited \/ StepMembersBy(Others)
          /\ held' = held \cup RolesNow'
    /\ UNCHANGED <<widgetVars, side>>
SpecRoleHistory == InitPlan /\ [][NextRoleHistory]_vars

\* the widget: its settings and the two public endpoints
StepWidget ==
    \/ \E u \in UserIds, p \in DOMAIN projects : generateWidgetToken(u, p)
    \/ \E u \in UserIds, p \in DOMAIN projects, hasOrigins, hasEnabled \in BOOLEAN :
          \E allowedOrigins \in IF hasOrigins THEN SUBSET OriginStrings ELSE {{}},
             enabled \in IF hasEnabled THEN BOOLEAN ELSE {FALSE} :
             updateWidgetSettings(u, p, hasOrigins, allowedOrigins, hasEnabled, enabled)
    \/ \E u \in UserIds, p \in DOMAIN projects : deleteWidgetToken(u, p)
    \/ \E token \in 0..MaxTokens, header \in Headers : getWidgetConfig(token, header)
    \/ \E token \in 0..MaxTokens, header \in Headers, title \in Titles, source \in Sources :
          createWidgetBug(token, header, title, source)

NextWidget ==
    \/ /\ StepSignup \/ StepProject
       /\ UNCHANGED <<held, widgetVars, side>>
    \/ StepWidget
SpecWidget == InitPlan /\ [][NextWidget]_vars

\* rows of every table that references projects, and the project's deletion
StepRows ==
    \/ \E u \in UserIds, p \in DOMAIN projects, e \in Emails :
          addMember(u, p, e, "MEMBER") /\ InvitationsPlanned' <= MaxInvitations
    \/ \E c \in BagToSet(inflight) : addMember_createMember(c)
    \/ \E c \in BagToSet(inflight) : addMember_createInvitation(c)
    \/ \E u \in UserIds, p \in DOMAIN projects : requestAccess(u, p)
    \/ \E c \in BagToSet(inflight) : requestAccess_create(c)
    \/ \E u \in UserIds, p \in DOMAIN projects : createBug(u, p, "t1")

NextCascade ==
    \/ /\ StepSignup \/ StepSignupInvited \/ StepProject \/ StepRows
       /\ UNCHANGED <<held, widgetVars, side>>
    \/ \E u \in UserIds, p \in DOMAIN projects : generateWidgetToken(u, p)
    \/ \E u \in 1..MaxUsers, p \in 1..MaxProjects, codeOk \in BOOLEAN :
          handleCallback(p, u, codeOk, "gh1")
    \/ \E u \in UserIds, p \in DOMAIN projects : deleteProject(u, p) /\ UNCHANGED <<held, runtime>>
SpecCascade == InitPlan /\ [][NextCascade]_vars

\* the endpoints that refuse a caller: reads, access requests, bug creation
NextDenied ==
    /\ \/ StepSignup \/ StepProject \/ StepDirectAdd \/ StepView
       \/ \E u \in UserIds, p \in DOMAIN projects : requestAccess(u, p)
       \/ \E c \in BagToSet(inflight) : requestAccess_create(c)
       \/ \E u \in UserIds, p \in DOMAIN projects : getAccessRequests(u, p)
       \/ \E u \in Callers, p \in DOMAIN projects : getBugsByProject(u, p)
       \/ \E u \in Callers, b \in DOMAIN bugs : getBugById(u, b)
       \/ \E u \in UserIds, p \in DOMAIN projects : createBug(u, p, "t1")
    /\ UNCHANGED <<held, widgetVars, side>>
SpecDenied == InitPlan /\ [][NextDenied]_vars

\* the handlers that notify by e-mail, suspended at their `await send...`
StepNotify ==
    \/ \E u \in UserIds, p \in DOMAIN projects, e \in Emails :
          addMember(u, p, e, "MEMBER") /\ InvitationsPlanned' <= MaxInvitations
    \/ \E c \in BagToSet(inflight) : addMember_createMember(c)
    \/ \E c \in BagToSet(inflight) : addMember_createInvitation_then(c, TRUE)
    \/ \E u \in UserIds, p \in DOMAIN projects, m \in UserIds :
          updateMemberRole_then(u, p, m, "VIEWER", TRUE)
    \/ \E u \in UserIds, p \in DOMAIN projects, m \in UserIds : removeMember_then(u, p, m, TRUE)
    \/ \E u \in UserIds, p \in DOMAIN projects : requestAccess(u, p)
    \/ \E c \in BagToSet(inflight) : requestAccess_create_then(c, TRUE)
    \/ \E u \in UserIds, r \in DOMAIN accessRequests : approveAccessRequest(u, r)
    \/ \E c \in BagToSet(inflight) : approveAccessRequest_save(c)
    \/ \E c \in BagToSet(inflight) : approveAccessRequest_createMember_then(c, TRUE)
    \/ \E u \in UserIds, r \in DOMAIN accessRequests : rejectAccessRequest(u, r)
    \/ \E c \in BagToSet(inflight) : rejectAccessRequest_save_then(c, TRUE)
    \/ \E u \in UserIds, p \in DOMAIN projects : createBug(u, p, "t1")
    \/ \E u \in UserIds, b \in DOMAIN bugs : updateBugStatus_then(u, b, "DEPLOYED", TRUE)

\* the requests are served one at a time
NextNotify ==
    \/ /\ StepSignup \/ StepProject \/ StepNotify
       /\ BagCardinality(inflight') <= 1
       /\ mail' = NoMail
       /\ UNCHANGED <<held, widgetVars, integrations, noted>>
    \/ \E c \in BagToSet(inflight), transportOk \in BOOLEAN : awaitSendEmail(c, transportOk)
SpecNotify == InitPlan /\ [][NextNotify]_vars

\* the GitHub integration
NextGitHub ==
    \/ /\ StepSignup \/ StepProject \/ StepDirectAdd
       /\ UNCHANGED <<held, widgetVars, side>>
    \/ \E u \in UserIds, p \in DOMAIN projects : initiateOAuth(u, p)
    \/ \E u \in 1..MaxUsers, p \in 1..MaxProjects, codeOk \in BOOLEAN, g \in GitHubUsers :
          handleCallback(p, u, codeOk, g)
    \/ \E u \in UserIds, p \in DOMAIN projects : disconnectIntegration(u, p)
SpecGitHub == InitPlan /\ [][NextGitHub]_vars

\* the widgets' origins and the CORS check
NextCors ==
    \/ /\ StepSignup \/ StepProject \/ Tick
       /\ UNCHANGED <<held, widgetVars, side>>
    \/ \E u \in UserIds, p \in DOMAIN projects : generateWidgetToken(u, p)
    \/ \E u \in UserIds, p \in DOMAIN projects, hasOrigins, hasEnabled \in BOOLEAN :
          \E allowedOrigins \in IF hasOrigins THEN SUBSET OriginStrings ELSE {{}},
             enabled \in IF hasEnabled THEN BOOLEAN ELSE {FALSE} :
             updateWidgetSettings(u, p, hasOrigins, allowedOrigins, hasEnabled, enabled)
    \/ \E u \in UserIds, p \in DOMAIN projects : deleteWidgetToken(u, p)
    \/ \E origin \in RequestOrigins, dbOk \in BOOLEAN : corsOrigin(origin, dbOk)
SpecCors == InitPlan /\ [][NextCors]_vars

\* the identity cache, with CachedUsers users registered
InitIdentity ==
    /\ users = SubSeq(<<"A@x", "a@x", "b@x", "c@x", "d@x">>, 1, CachedUsers)
    /\ projects = <<>>
    /\ members = EmptyBag
    /\ accessRequests = <<>>
    /\ invitations = <<>>
    /\ bugs = <<>>
    /\ requestIndex = "PLAN"
    /\ now = 0
    /\ inflight = EmptyBag
    /\ resp = Response("none", 0, 0, {}, "")
    /\ approvals = EmptyBag
    /\ held = {}
    /\ widgetTokens = [p \in 1..MaxProjects |-> NoWidget]
    /\ tokensIssued = 0
    /\ integrations = [p \in 1..MaxProjects |-> NoIntegration]
    /\ mail = NoMail
    /\ initiated = {}
    /\ cachedWidgetOrigins = {}
    /\ widgetOriginsCacheTime = 0 - WIDGET_CACHE_TTL
    /\ userCache = <<>>
    /\ cacheInserts = 0

NextIdentity ==
    \/ Tick /\ UNCHANGED <<held, widgetVars, side>>
    \/ \E u \in UserIds : authenticate(u)
    \/ \E c \in BagToSet(inflight) : authenticate_findByPk(c)
SpecIdentity == InitIdentity /\ [][NextIdentity]_vars

\* invitations by e-mail, up to MaxPending of them
StepPending ==
    \/ \E u \in UserIds, p \in DOMAIN projects, e \in Emails, r \in MemberRole :
          addMember(u, p, e, r) /\ InvitationsPlanned' <= MaxPending
    \/ \E c \in BagToSet(inflight) : addMember_createMember(c)
    \/ \E c \in BagToSet(inflight) : addMember_createInvitation(c)

NextPending ==
    /\ StepSignup \/ StepSignupInvited \/ StepProject \/ StepPending
    /\ UNCHANGED <<held, widgetVars, side>>
SpecPending == InitPlan /\ [][NextPending]_vars

\* ------------------------------------------------------------------ claims
\* a private project, and a caller who is neither its owner nor a member of it
Outsider(u, p) ==
    /\ ProjectExists(p)
    /\ ~projects[p].isPublic
    /\ u # projects[p].ownerId
    /\ ~IsMember(p, u)

\* C1: on a private project every bug endpoint and the project view refuse a
\* caller who is neither the owner nor a member, whatever the caller was
\* before: the answer is no success, it carries no bug, and no bug changes.
C1_PrivateProjectIsolation ==
    /\ [][\A u \in Callers, p \in Live(projects), t \in Titles :
            ( /\ Outsider(u, p)
              /\ (getBugsByProject(u, p) \/ getProjectBySlug(u, p) \/ createBug(u, p, t)) )
                => ( /\ resp'.status \notin {200, 201}
                     /\ resp'.bugs = {}
                     /\ bugs' = bugs )]_vars
    /\ [][\A u \in Callers, b \in Live(bugs), t \in Titles, st \in BugStatus :
            ( /\ Outsider(u, bugs[b].projectId)
              /\ \/ getBugById(u, b)
                 \/ updateBug(u, b, t)
                 \/ updateBugStatus(u, b, st)
                 \/ deleteBug(u, b) )
                => ( /\ resp'.status \notin {200, 201}
                     /\ resp'.bugs = {}
                     /\ bugs' = bugs )]_vars

\* C2: a project's ownerId never changes while the project exists, and a
\* caller is treated as the owner exactly when the caller is ownerId: the
\* project view reports OWNER for that caller only, and updateProject,
\* deleteProject and updateMemberRole go past their owner check for that
\* caller only.
C2_OwnerIsOwnerId ==
    /\ [][\A p \in Live(projects) :
            p \in Live(projects') => projects'[p].ownerId = projects[p].ownerId]_vars
    /\ [][\A u \in Callers, p \in Live(projects) :
            getProjectBySlug(u, p)
                => (resp'.role = "OWNER" <=> u = projects[p].ownerId)]_vars
    /\ [][\A u \in UserIds, p \in Live(projects) :
            ( \/ \E pub \in BOOLEAN : updateProject(u, p, pub)
              \/ deleteProject(u, p)
              \/ \E m \in UserIds, r \in MemberRole : updateMemberRole(u, p, m, r) )
                => ( /\ resp'.status = 403 <=> u # projects[p].ownerId
                     /\ u # projects[p].ownerId => UNCHANGED store )]_vars

\* C2, its case: the owner has updated a project that has a member as well
C2_Witness ==
    /\ resp.op = "updateProject"
    /\ resp.status = 200
    /\ \E p \in Live(projects) :
          /\ projects[p].ownerId \in UserIds
          /\ \E u \in UserIds : IsMember(p, u)

\* C3: no membership row names the owner of its project.
C3_OwnerNeverMember ==
    \A m \in BagToSet(members) :
        ProjectExists(m.projectId) => m.userId # projects[m.projectId].ownerId

\* C4: a (project, user) has one membership row at most, and a step that
\* would create a membership for a pair that has one is answered 400 and
\* leaves the table alone.
C4_OneMembershipPerPair ==
    /\ [](\A m \in BagToSet(members) : MemberCount(m.projectId, m.userId) = 1)
    /\ [][\A u \in UserIds, p \in Live(projects), e \in KnownEmails, r \in MemberRole :
            ( /\ addMember(u, p, e, r)
              /\ IsOwnerOrAdmin(p, u)
              /\ \E v \in UserByEmail(e) : IsMember(p, v) )
                => (resp'.status = 400 /\ UNCHANGED <<store, inflight>>)]_vars
    /\ [][\A c \in BagToSet(inflight) :
            ( /\ addMember_createMember(c) \/ approveAccessRequest_createMember(c)
              /\ IsMember(c.projectId, c.subject) )
                => (resp'.status = 400 /\ members' = members)]_vars

\* C5: an approval moves a request PENDING -> APPROVED exactly once: no
\* request is approved with success twice, an approve of a request that is
\* not PENDING is refused and changes nothing, and when an approval answers
\* 200 the requester has exactly one membership row for the project.
C5_ApprovedExactlyOnce ==
    /\ [](\A r \in BagToSet(approvals) : CopiesIn(r, approvals) = 1)
    /\ [][\A u \in UserIds, r \in Live(accessRequests) :
            (approveAccessRequest(u, r) /\ accessRequests[r].status # "PENDING")
                => (resp'.status \in {400, 403} /\ UNCHANGED <<store, inflight>>)]_vars
    /\ [][\A c \in BagToSet(inflight) :
            (approveAccessRequest_createMember(c) /\ resp'.status = 200)
                => MemberCount(c.projectId, c.subject)' = 1]_vars

\* C6: at most one PENDING request for a (project, user), and a requestAccess
\* by the owner, by a member or by a user with a PENDING request is answered
\* 400 and creates no row: at the handler's own check, and also when the
\* PENDING row is the one a concurrent request has just created.
C6_DuplicateRequestIs400 ==
    /\ [](\A i, j \in Live(accessRequests) :
            ( /\ accessRequests[i].projectId = accessRequests[j].projectId
              /\ accessRequests[i].userId = accessRequests[j].userId
              /\ accessRequests[i].status = "PENDING"
              /\ accessRequests[j].status = "PENDING" ) => i = j)
    /\ [][\A u \in UserIds, p \in Live(projects) :
            ( /\ requestAccess(u, p)
              /\ (projects[p].ownerId = u \/ IsMember(p, u) \/ PendingRequests(p, u) # {}) )
                => (resp'.status = 400 /\ UNCHANGED <<store, inflight>>)]_vars
    /\ [][\A c \in BagToSet(inflight) :
            (requestAccess_create(c) /\ PendingRequests(c.projectId, c.userId) # {})
                => (resp'.status = 400 /\ UNCHANGED store)]_vars

\* C7: after a rejection the same user can ask again and the cycle can
\* repeat: a request by a user whose earlier request is REJECTED and who has
\* none PENDING is created (201) as a new row next to the old ones, and the
\* owner's rejection of a PENDING request is written (200).
C7_ReRequestAfterRejection ==
    /\ [][\A c \in BagToSet(inflight) :
            ( /\ requestAccess_create(c)
              /\ ProjectExists(c.projectId)
              /\ PendingRequests(c.projectId, c.userId) = {}
              /\ \E i \in Live(accessRequests) :
                    /\ accessRequests[i].projectId = c.projectId
                    /\ accessRequests[i].userId = c.userId
                    /\ accessRequests[i].status = "REJECTED" )
                => ( /\ resp'.status = 201
                     /\ Len(accessRequests') = Len(accessRequests) + 1
                     /\ accessRequests'[Len(accessRequests')].status = "PENDING"
                     /\ \A i \in DOMAIN accessRequests :
                            accessRequests'[i] = accessRequests[i] )]_vars
    /\ [][\A c \in BagToSet(inflight) :
            ( /\ rejectAccessRequest_save(c)
              /\ c.row \in Live(accessRequests)
              /\ accessRequests[c.row].status = "PENDING" )
                => (resp'.status = 200 /\ accessRequests'[c.row].status = "REJECTED")]_vars

\* C8: a request becomes REJECTED from PENDING only and by a request of the
\* project's owner only; the rejection changes that row's status and nothing
\* else in the store, and a reject of a request that is not PENDING is
\* refused and changes nothing.
C8_RejectOnlyFromPending ==
    /\ [][\A r \in Live(accessRequests) :
            ( /\ r \in Live(accessRequests')
              /\ accessRequests'[r].status = "REJECTED"
              /\ accessRequests[r].status # "REJECTED" )
                => accessRequests[r].status = "PENDING"]_vars
    /\ [][\A c \in BagToSet(inflight) :
            rejectAccessRequest_save(c)
                => ( /\ c.userId = projects[c.projectId].ownerId
                     /\ UNCHANGED <<users, projects, members, invitations, bugs>>
                     /\ DOMAIN accessRequests' = DOMAIN accessRequests
                     /\ \A i \in DOMAIN accessRequests :
                            i # c.row => accessRequests'[i] = accessRequests[i] )]_vars
    /\ [][\A u \in UserIds, r \in Live(accessRequests) :
            ( /\ rejectAccessRequest(u, r)
              /\ \/ accessRequests[r].status # "PENDING"
                 \/ projects[accessRequests[r].projectId].ownerId # u )
                => (resp'.status \in {400, 403} /\ UNCHANGED <<store, inflight>>)]_vars

\* C9: the membership an approval creates has role MEMBER, and a request
\* whose approval was answered 200 records its reviewer.
C9_ApprovalRecordsReviewer ==
    /\ [][\A c \in BagToSet(inflight) :
            (approveAccessRequest_createMember(c) /\ resp'.status = 200)
                => RoleOf(c.projectId, c.subject)' = "MEMBER"]_vars
    /\ [](\A r \in BagToSet(approvals) :
            r \in Live(accessRequests) => accessRequests[r].reviewedBy # NULL)

\* C10: createBug on an existing project answers 201 exactly when the caller
\* is the owner or has a membership row with role MEMBER or ADMIN at that
\* moment, and the bug it creates is in TRIAGE, reported by the caller; every
\* other caller is answered 403 and the bugs table is left alone.
C10_CreateBugPermission ==
    [][\A u \in UserIds, p \in Live(projects), t \in Titles :
         createBug(u, p, t) =>
            IF \/ u = projects[p].ownerId
               \/ \E m \in BagToSet(members) :
                     m.projectId = p /\ m.userId = u /\ m.role \in {"MEMBER", "ADMIN"}
            THEN /\ resp'.status = 201
                 /\ Len(bugs') = Len(bugs) + 1
                 /\ bugs'[Len(bugs')].status = "TRIAGE"
                 /\ bugs'[Len(bugs')].reporterId = u
                 /\ bugs'[Len(bugs')].projectId = p
            ELSE resp'.status = 403 /\ bugs' = bugs]_vars

\* C10, its case: a member who is not the owner has created a bug
C10_Witness ==
    /\ resp.op = "createBug"
    /\ resp.status = 201
    /\ \E b \in resp.bugs :
          /\ b \in Live(bugs)
          /\ bugs[b].status = "TRIAGE"
          /\ bugs[b].reporterId # projects[bugs[b].projectId].ownerId
          /\ RoleOf(bugs[b].projectId, bugs[b].reporterId) = "MEMBER"

\* the caller's membership row on the project gives one of the roles
HasRole(p, u, roles) ==
    \E m \in BagToSet(members) : m.projectId = p /\ m.userId = u /\ m.role \in roles

\* C11: updateBug on an existing bug answers 200 and writes the bug exactly
\* when the caller is the project's owner, the bug's reporter, or a MEMBER or
\* ADMIN of the project; every other caller is answered 403 and no bug changes.
C11_UpdateBugPermission ==
    [][\A u \in UserIds, b \in Live(bugs), t \in Titles :
         updateBug(u, b, t) =>
            IF \/ u = projects[bugs[b].projectId].ownerId
               \/ u = bugs[b].reporterId
               \/ HasRole(bugs[b].projectId, u, {"MEMBER", "ADMIN"})
            THEN /\ resp'.status = 200
                 /\ bugs' = [bugs EXCEPT ![b].title = t]
            ELSE resp'.status = 403 /\ bugs' = bugs]_vars

\* C11, its case: a bug has been edited whose reporter is neither the owner
\* nor a MEMBER or ADMIN of the project
C11_Witness ==
    /\ resp.op = "updateBug"
    /\ resp.status = 200
    /\ \E b \in resp.bugs :
          /\ b \in Live(bugs)
          /\ bugs[b].title = "t2"
          /\ bugs[b].reporterId # projects[bugs[b].projectId].ownerId
          /\ ~HasRole(bugs[b].projectId, bugs[b].reporterId, {"MEMBER", "ADMIN"})

\* C12: deleteBug on an existing bug answers 200 and removes the bug exactly
\* when the caller is the project's owner, the bug's reporter or an ADMIN of
\* the project; every other caller is answered 403 and the bug stays.
C12_DeleteBugPermission ==
    [][\A u \in UserIds, b \in Live(bugs) :
         deleteBug(u, b) =>
            IF \/ u = projects[bugs[b].projectId].ownerId
               \/ u = bugs[b].reporterId
               \/ HasRole(bugs[b].projectId, u, {"ADMIN"})
            THEN /\ resp'.status = 200
                 /\ b \notin Live(bugs')
            ELSE resp'.status = 403 /\ bugs' = bugs]_vars

\* C12, its case: a MEMBER who is not the reporter has been refused, the bug
\* is still there
C12_Witness ==
    /\ resp.op = "deleteBug"
    /\ resp.status = 403
    /\ \E b \in Live(bugs), u \in UserIds :
          /\ u # bugs[b].reporterId
          /\ HasRole(bugs[b].projectId, u, {"MEMBER"})

\* C13: updateBugStatus on an existing bug answers 200 and sets the status
\* asked for, whatever the status was, exactly when the caller is the
\* project's owner or a MEMBER or ADMIN of it; every other caller, the
\* reporter too, is answered 403 and no bug changes.
C13_StatusAnyToAny ==
    [][\A u \in UserIds, b \in Live(bugs), st \in BugStatus :
         updateBugStatus(u, b, st) =>
            IF \/ u = projects[bugs[b].projectId].ownerId
               \/ HasRole(bugs[b].projectId, u, {"MEMBER", "ADMIN"})
            THEN /\ resp'.status = 200
                 /\ bugs' = [bugs EXCEPT ![b].status = st]
            ELSE resp'.status = 403 /\ bugs' = bugs]_vars

\* C13, its case: a status change has put a bug in TRIAGE whose reporter has
\* no write role any more
C13_Witness ==
    /\ resp.op = "updateBugStatus"
    /\ resp.status = 200
    /\ \E b \in resp.bugs :
          /\ b \in Live(bugs)
          /\ bugs[b].status = "TRIAGE"
          /\ bugs[b].reporterId # projects[bugs[b].projectId].ownerId
          /\ ~HasRole(bugs[b].projectId, bugs[b].reporterId, {"MEMBER", "ADMIN"})

\* C14: updateProject and deleteProject by a caller who is not the project's
\* owner, an ADMIN member too, are answered 403 and change nothing in the
\* store; by the owner they are answered 200.
C14_ProjectOwnerOnly ==
    [][\A u \in UserIds, p \in Live(projects) :
         ( \/ \E pub \in BOOLEAN : updateProject(u, p, pub)
           \/ deleteProject(u, p) )
            => IF u = projects[p].ownerId
               THEN resp'.status = 200
               ELSE resp'.status = 403 /\ UNCHANGED store]_vars

\* C14, its case: an ADMIN member has been refused, the project is there
C14_Witness ==
    /\ resp.op \in {"updateProject", "deleteProject"}
    /\ resp.status = 403
    /\ \E p \in Live(projects), u \in UserIds : HasRole(p, u, {"ADMIN"})

\* C15: updateMemberRole by a caller who is not the owner is answered 403 and
\* changes nothing, and while no owner acts no user is seen with two
\* different roles on one project.
C15_RoleChangedByOwnerOnly ==
    /\ [][\A u \in UserIds, p \in Live(projects), m \in UserIds, r \in MemberRole :
            (updateMemberRole(u, p, m, r) /\ u # projects[p].ownerId)
                => (resp'.status = 403 /\ UNCHANGED store)]_vars
    /\ [](\A x, y \in held : (x[1] = y[1] /\ x[2] = y[2]) => x[3] = y[3])

\* C16: an accept with the token of an ACCEPTED invitation is answered 404
\* and creates no membership, and a membership row is created by an accept
\* only while its invitation is still PENDING.
C16_AcceptedTokenIsSpent ==
    /\ [][\A u \in UserIds, t \in Live(invitations) :
            (acceptInvitation(u, t) /\ invitations[t].status = "ACCEPTED")
                => (resp'.status = 404 /\ UNCHANGED <<store, inflight>>)]_vars
    /\ [][\A c \in BagToSet(inflight) :
            (acceptInvitation_createMember(c) /\ members' # members)
                => invitations[c.row].status = "PENDING"]_vars

\* C17: an invitation whose expiresAt has passed cannot be accepted (404,
\* nothing changes), and it does not count in the duplicate check of
\* addMember: an owner or ADMIN who invites an unregistered e-mail whose
\* PENDING invitations to the project have all expired is not answered 400,
\* the request goes on to create the invitation.
C17_ExpiredInvitationInert ==
    /\ [][\A u \in UserIds, t \in Live(invitations) :
            (acceptInvitation(u, t) /\ invitations[t].expiresAt <= now)
                => (resp'.status = 404 /\ UNCHANGED <<store, inflight>>)]_vars
    /\ [][\A u \in UserIds, p \in Live(projects), e \in Emails, r \in MemberRole :
            ( /\ addMember(u, p, e, r)
              /\ u = projects[p].ownerId \/ HasRole(p, u, {"ADMIN"})
              /\ \A v \in UserIds : users[v] # e
              /\ \A i \in Live(invitations) :
                    ( /\ invitations[i].email = e
                      /\ invitations[i].projectId = p
                      /\ invitations[i].status = "PENDING" )
                        => invitations[i].expiresAt <= now )
                => (inflight' # inflight /\ resp' = resp)]_vars

\* the PENDING invitations of an e-mail address to a project
PendingFor(e, p) ==
    {i \in Live(invitations) : /\ invitations[i].email = e
                               /\ invitations[i].projectId = p
                               /\ invitations[i].status = "PENDING"}

\* C18: there is at most one PENDING invitation per (email, project), and
\* addMember by e-mail for a pair that has one is answered 400 and creates
\* nothing.
C18_OnePendingPerEmail ==
    /\ [](\A e \in Emails, p \in DOMAIN projects : Cardinality(PendingFor(e, p)) <= 1)
    /\ [][\A u \in UserIds, p \in Live(projects), e \in Emails, r \in MemberRole :
            ( /\ addMember(u, p, e, r)
              /\ u = projects[p].ownerId \/ HasRole(p, u, {"ADMIN"})
              /\ \A v \in UserIds : users[v] # e
              /\ PendingFor(e, p) # {} )
                => (resp'.status = 400 /\ UNCHANGED <<store, inflight>>)]_vars

\* the PENDING, non-expired invitations whose e-mail equals e case-insensitively
MatchingInvitations(e) ==
    {i \in Live(invitations) : /\ invitations[i].status = "PENDING"
                               /\ invitations[i].expiresAt > now
                               /\ toLowerCase(invitations[i].email) = toLowerCase(e)}

\* C19: when signup creates the user with e-mail E, the invitations it goes
\* on to convert are the PENDING, non-expired invitations whose e-mail
\* equals E case-insensitively.
C19_SignupConvertsInvitations ==
    [][\A c \in BagToSet(inflight) :
            ( /\ signup_createUser(c)
              /\ users' # users
              /\ MatchingInvitations(c.email) # {} )
                => \E d \in BagToSet(inflight') :
                      d.op = "signup" /\ d.left = MatchingInvitations(c.email)]_vars

\* C20: createWidgetBug with the token of an enabled widget whose allowlist
\* is not empty and holds neither the origin of the request nor "*" is not
\* answered 201 and creates no bug.
C20_WidgetOriginEnforced ==
    [][\A token \in 1..MaxTokens, header \in Headers, title \in Titles, source \in Sources :
         \A p \in DOMAIN widgetTokens :
            ( /\ createWidgetBug(token, header, title, source)
              /\ widgetTokens[p].token = token
              /\ widgetTokens[p].enabled
              /\ widgetTokens[p].allowedOrigins # {}
              /\ "*" \notin widgetTokens[p].allowedOrigins
              /\ header = "" \/ URLOrigin(header) \notin widgetTokens[p].allowedOrigins )
                => (resp'.status # 201 /\ bugs' = bugs)]_vars

\* the tokens that pass the token and enabled checks for project p
ValidTokens(p) ==
    {t \in 1..MaxTokens : p \in WidgetByToken(t) /\ widgetTokens[p].enabled}

ReferencedProjects ==
    {bugs[b].projectId : b \in Live(bugs)}
        \cup {m.projectId : m \in BagToSet(members)}
        \cup {accessRequests[r].projectId : r \in Live(accessRequests)}
        \cup {invitations[i].projectId : i \in Live(invitations)}
        \cup {p \in DOMAIN widgetTokens : widgetTokens[p] # NoWidget}
        \cup {p \in DOMAIN integrations : integrations[p] # NoIntegration}

\* C23: every bug, membership, access request, invitation, widget token and
\* GitHub integration refers to a project that exists, and a deleteProject
\* answered 200 leaves no row that refers to the deleted project.
C23_DeleteCascades ==
    /\ [](\A p \in ReferencedProjects : p \in Live(projects))
    /\ [][\A u \in UserIds, p \in Live(projects) :
            (deleteProject(u, p) /\ resp'.status = 200)
                => (p \notin Live(projects') /\ p \notin ReferencedProjects')]_vars

\* a deleted project whose bug, invitation and widget token went with it,
\* and a write for it that was in flight and failed
C23_Witness ==
    /\ \E p \in DOMAIN projects : p \notin Live(projects)
    /\ Len(bugs) > 0 /\ Len(invitations) > 0 /\ tokensIssued > 0
    /\ resp.op \in {"addMember", "requestAccess"} /\ resp.status = 500

\* C24: a caller who fails the access check of an endpoint is answered 403,
\* except by getAccessRequests, which answers a caller who is neither the
\* owner nor an ADMIN with 200 and an empty list.
C24_DeniedIsExplicit ==
    /\ [][\A u \in UserIds, p \in Live(projects) :
            ( /\ getAccessRequests(u, p)
              /\ u # projects[p].ownerId
              /\ ~HasRole(p, u, {"ADMIN"}) )
                => (resp'.status = 200 /\ resp'.n = 0)]_vars
    /\ [][\A u \in Callers, p \in Live(projects) :
            ( /\ Outsider(u, p)
              /\ getBugsByProject(u, p) \/ getProjectBySlug(u, p) )
                => resp'.status = 403]_vars
    /\ [][\A u \in UserIds, p \in Live(projects) :
            ( /\ u # projects[p].ownerId
              /\ ~HasRole(p, u, {"ADMIN", "MEMBER"})
              /\ createBug(u, p, "t1") )
                => resp'.status = 403]_vars
    /\ [][\A u \in Callers, b \in Live(bugs) :
            ( /\ Outsider(u, bugs[b].projectId)
              /\ getBugById(u, b) )
                => resp'.status = 403]_vars

C27_AnswerNeverWaitsForMail ==
    \A c \in BagToSet(inflight) : c.pc # "sendEmail"

\* C26: the GitHub integration of a project changes only for an owner or an
\* ADMIN of it: disconnectIntegration removes it only for such a caller, and
\* handleCallback writes it only for a (project, user) that initiateOAuth
\* gave a state to, the user being owner or ADMIN of the project.
C26_IntegrationByOwnerOrAdmin ==
    /\ [][\A u \in UserIds, p \in Live(projects) :
            (disconnectIntegration(u, p) /\ integrations'[p] # integrations[p])
                => (u = projects[p].ownerId \/ HasRole(p, u, {"ADMIN"}))]_vars
    /\ [][(resp'.op = "handleCallback" /\ integrations' # integrations)
            => \A u \in 1..MaxUsers, p \in 1..MaxProjects, g \in GitHubUsers :
                  handleCallback(p, u, TRUE, g)
                      => ( /\ <<p, u>> \in initiated
                           /\ u = projects[p].ownerId \/ HasRole(p, u, {"ADMIN"}) )]_vars

\* C28: an approval whose ProjectMember.create fails does not leave the request
\* APPROVED, and a request that is APPROVED, with no approval of it still
\* under way, is one whose approval created the membership and answered 200.
C28_ApproveAllOrNothing ==
    /\ [][(resp'.op = "approveAccessRequest" /\ resp'.status = 500)
            => \A c \in BagToSet(inflight) :
                  (approveAccessRequest_createMember(c) /\ c.row \in Live(accessRequests'))
                      => accessRequests'[c.row].status # "APPROVED"]_vars
    /\ [](\A r \in Live(accessRequests) :
            ( /\ accessRequests[r].status = "APPROVED"
              /\ \A c \in BagToSet(inflight) :
                    ~(c.op = "approveAccessRequest" /\ c.row = r) )
                => r \in BagToSet(approvals))

C30_IdentityCacheBounded ==
    /\ [](Len(userCache) <= UserCacheLimit + 1)
    /\ [](\A i, j \in DOMAIN userCache : userCache[i].id = userCache[j].id => i = j)
    /\ [][\A c \in BagToSet(inflight) :
            authenticate_findByPk(c)
                => LET Stamps(cache) == {cache[i].stamp : i \in DOMAIN cache}
                       gone == Stamps(userCache) \ Stamps(userCache')
                   IN
                   IF Len(userCache) > UserCacheLimit
                   THEN /\ Cardinality(gone) = 1
                        /\ \A g \in gone : \A t \in Stamps(userCache) : g <= t
                   ELSE gone = {}]_vars

\* an insertion has just evicted an entry, and the cache is at its largest
C30_Witness ==
    /\ resp.op = "authenticate" /\ resp.n = 1
    /\ Len(userCache) = UserCacheLimit + 1

====
